---- MODULE Spec2Model ----
(***************************************************************************)
(* State-machine model of src/main.py: the Presto touchscreen client that  *)
(* brings Wi-Fi up, polls GET /status on a tick timer, redraws on change   *)
(* and POSTs /start or /stop when the screen is touched.                   *)
(*                                                                         *)
(* The program is one thread; pc is its position in main().  The touch     *)
(* panel is the only part of the environment that keeps state between two  *)
(* program steps (the finger stays down or up), so it has its own actions  *)
(* Press and Release.  Every other input (wlan.isconnected(), the answer   *)
(* to a GET or a POST, time.ticks_ms(), the secrets import) is drawn with  *)
(* \E at the step that reads it.                                           *)
(***************************************************************************)
EXTENDS Integers, Sequences, FiniteSets, TLC

VARIABLES
    pc,            \* position of the single thread in the module / main()
    display,       \* what the last p.update() left on the screen
    max_wait,      \* connect_wifi's local countdown (line 76)
    current_state, \* main's local (line 116)
    last_poll,     \* main's local (line 117)
    now,           \* main's local (line 141)
    new_state,     \* main's local (line 143)
    touch_state,   \* p.touch.state as left by the last p.touch.poll()
    touch_hw,      \* environment: a finger is on the panel
    \* ---- observation (history) variables, read by the properties only ----
    cw,            \* the connect_wifi call that runs or has just returned
    attempts,      \* connect_wifi calls made so far (saturates at MaxAttempts)
    wifi_up,       \* a connect_wifi call has returned True
    contact,       \* the contact the loop detected last: still down?, commands
    iter,          \* the current loop iteration: what it did so far
    open_responses \* HTTP responses obtained and not closed (saturates)

vars == <<pc, display, max_wait, current_state, last_poll, now, new_state,
          touch_state, touch_hw, cw, attempts, wifi_up, contact, iter,
          open_responses>>

-----------------------------------------------------------------------------
(* Bounds of the model (not program constants).                            *)

\* connect_wifi calls are counted up to this number, then the count sticks
MaxAttempts == 2
\* unclosed responses are counted up to this number, then the count sticks
MaxOpen == 1
\* debounce polls of one touch are counted up to this number, then it sticks
MaxPolls == 2

-----------------------------------------------------------------------------
(* Program constants.                                                      *)

POLL_INTERVAL == 3000
\* initial value of max_wait in connect_wifi
MAX_WAIT == 15
\* MicroPython: ticks_ms() wraps at TICKS_PERIOD = MP_SMALL_INT_POSITIVE_MASK + 1
TICKS_PERIOD == 1073741824

Min(a, b) == IF a < b THEN a ELSE b

-----------------------------------------------------------------------------
(* Values.  A session state is whatever JSON value the server put in the   *)
(* sessionState field; the program compares it with == and formats it with *)
(* an f-string, so a value is its JSON type and its printed text.          *)

Str(s) == [type |-> "str", text |-> s]
Num(s) == [type |-> "num", text |-> s]

\* the values a server answer can carry in "sessionState"
SessionValues ==
    { Str("listening"), Str("started"), Str("offline"), Str("init"),
      Str("idle"), Num("42") }

\* new_state before line 143 has run in this iteration
Unset == [type |-> "unset", text |-> ""]

\* tick values time.ticks_ms() is sampled at: both sides of the poll
\* interval and of the half period, and the last tick before the wrap
TickValues ==
    { POLL_INTERVAL, POLL_INTERVAL + 1, (TICKS_PERIOD \div 2) - 1,
      TICKS_PERIOD \div 2, TICKS_PERIOD - 1 }

\* time.ticks_diff(ticks1, ticks2) of MicroPython (extmod/modtime.c)
ticks_diff(ticks1, ticks2) ==
    ((ticks1 - ticks2 + (TICKS_PERIOD \div 2)) % TICKS_PERIOD)
        - (TICKS_PERIOD \div 2)

-----------------------------------------------------------------------------
(* draw_ui, lines 32-65: the frame that p.update() presents.               *)

Blank == [color |-> "NONE", label |-> "", message |-> ""]

\* draw_ui without the branch of lines 46-48
draw_ui_without_init(state, message) ==
    IF state = Str("listening") \/ state = Str("started")
    THEN [color |-> "GREEN", label |-> "ACTIVE", message |-> message]
    ELSE IF state = Str("offline")
    THEN [color |-> "RED", label |-> "OFFLINE", message |-> message]
    ELSE [color |-> "GRAY", label |-> "IDLE", message |-> message]

draw_ui(state, message) ==
    IF state = Str("listening") \/ state = Str("started")
    THEN [color |-> "GREEN", label |-> "ACTIVE", message |-> message]
    ELSE IF state = Str("offline")
    THEN [color |-> "RED", label |-> "OFFLINE", message |-> message]
    ELSE IF state = Str("init")
    THEN [color |-> "BLUE", label |-> "STARTING", message |-> message]
    ELSE [color |-> "GRAY", label |-> "IDLE", message |-> message]

\* f"State: {current_state}", line 147
StateMessage(state) == "State: " \o state.text

-----------------------------------------------------------------------------
(* get_server_status, lines 88-96.                                         *)

\* what one GET can meet
GetOutcomes ==
    { [kind |-> "refused"],      \* urequests.get raises OSError
      [kind |-> "timeout"],      \* urequests.get raises OSError
      [kind |-> "notjson"],      \* a response whose body is not JSON
      [kind |-> "array"],        \* a JSON body that is not an object
      [kind |-> "nofield"] }     \* a JSON object without sessionState
    \cup { [kind |-> "field", val |-> v] : v \in SessionValues }

\* the try block, lines 90-93: exc = an exception left the block,
\* open = responses obtained and not closed when the block is left
GetTry(o) ==
    IF o.kind \in {"refused", "timeout"}
    THEN \* line 90 raises: no response object exists
         [exc |-> TRUE, open |-> 0, value |-> Unset]
    ELSE IF o.kind = "notjson"
    THEN \* line 91 raises ValueError; line 92 is skipped
         [exc |-> TRUE, open |-> 1, value |-> Unset]
    ELSE IF o.kind = "array"
    THEN \* line 92 closes; line 93: a list has no .get, AttributeError
         [exc |-> TRUE, open |-> 0, value |-> Unset]
    ELSE IF o.kind = "nofield"
    THEN [exc |-> FALSE, open |-> 0, value |-> Str("offline")]
    ELSE [exc |-> FALSE, open |-> 0, value |-> o.val]

\* get_server_status without the except clause of lines 94-96
get_server_status_no_except(o) ==
    LET r == GetTry(o)
    IN  [raised |-> r.exc, open |-> r.open, value |-> r.value]

\* get_server_status with an except clause that returns another fallback
get_server_status_idle_fallback(o) ==
    LET r == GetTry(o)
    IN  IF r.exc
        THEN [raised |-> FALSE, open |-> r.open, value |-> Str("idle")]
        ELSE [raised |-> FALSE, open |-> r.open, value |-> r.value]

\* the function: raised = an exception reaches the caller (line 94 catches)
get_server_status(o) ==
    LET r == GetTry(o)
    IN  IF r.exc
        THEN [raised |-> FALSE, open |-> r.open, value |-> Str("offline")]
        ELSE [raised |-> FALSE, open |-> r.open, value |-> r.value]

-----------------------------------------------------------------------------
(* send_toggle, lines 98-103.                                              *)

PostOutcomes == {"ok", "refused", "timeout"}

\* line 99 with the two endpoints exchanged
EndpointSwapped(target_state) ==
    IF target_state \in {Str("listening"), Str("started")}
    THEN "/start" ELSE "/stop"

\* line 99
Endpoint(target_state) ==
    IF target_state \in {Str("listening"), Str("started")}
    THEN "/stop" ELSE "/start"

\* line 101 with a second POST after a failed one
PostTryAgain(o) ==
    IF o = "ok"
    THEN [exc |-> FALSE, posts |-> 1, open |-> 0]
    ELSE [exc |-> TRUE, posts |-> 2, open |-> 0]

\* the try block, line 101: one POST; exc = the POST raised (no response
\* object exists then), otherwise the response is closed at once
PostTry(o) ==
    IF o = "ok"
    THEN [exc |-> FALSE, posts |-> 1, open |-> 0]
    ELSE [exc |-> TRUE, posts |-> 1, open |-> 0]

\* the function: raised = an exception reaches the caller (line 102 catches)
send_toggle(target_state, o) ==
    LET r == PostTry(o)
    IN  [endpoint |-> Endpoint(target_state), posts |-> r.posts,
         raised |-> FALSE, open |-> r.open]

-----------------------------------------------------------------------------
(* Observation records.                                                    *)

\* no connect_wifi call is running or waiting to be consumed by main
CwIdle ==
    [result |-> "none", draws |-> 0, assocs |-> 0, checks |-> 0, sleeps |-> 0]

\* a loop iteration that has done nothing yet
IterStart ==
    [touched |-> FALSE,  \* the touch branch (lines 124-138) was taken
     polls |-> 0,        \* debounce polls (line 134) that saw the finger down
     posts |-> 0,        \* POSTs issued
     endpoint |-> "",    \* endpoint of the POST
     posted |-> "",      \* what the POST met
     arg |-> Unset,      \* argument of send_toggle
     checked |-> FALSE,  \* the status check (lines 143-150) was taken
     gets |-> 0,         \* GETs issued
     got |-> [kind |-> "none"],  \* what the GET met
     before |-> Unset,   \* current_state when line 145 was reached
     draws |-> 0,        \* draw_ui calls of the status check
     gcs |-> 0]          \* gc.collect calls of the status check

\* positions inside the while True loop of main, lines 119-152
LoopPcs ==
    { "touch_poll", "touch_draw", "touch_send", "debounce", "force_refresh",
      "status_tick", "fetch", "compare", "set_last_poll", "sleep" }

-----------------------------------------------------------------------------
(* Initial state: the interpreter is about to run the module.              *)

Init ==
    /\ pc = "import"
    /\ display = Blank
    /\ max_wait = 0
    /\ current_state = Unset
    /\ last_poll = 0
    /\ now = 0
    /\ new_state = Unset
    /\ touch_state = FALSE
    /\ touch_hw = FALSE
    /\ cw = CwIdle
    /\ attempts = 0
    /\ wifi_up = FALSE
    /\ contact = [live |-> FALSE, sends |-> 0]
    /\ iter = IterStart
    /\ open_responses = 0

-----------------------------------------------------------------------------
(* The environment: the finger.                                            *)

Press ==
    /\ ~touch_hw
    /\ touch_hw' = TRUE
    /\ UNCHANGED <<pc, display, max_wait, current_state, last_poll, now,
                   new_state, touch_state, cw, attempts, wifi_up, contact,
                   iter, open_responses>>

\* lifting the finger ends the contact the loop detected, if it was down
Release ==
    /\ touch_hw
    /\ touch_hw' = FALSE
    /\ contact' = [contact EXCEPT !.live = FALSE]
    /\ UNCHANGED <<pc, display, max_wait, current_state, last_poll, now,
                   new_state, touch_state, cw, attempts, wifi_up, iter,
                   open_responses>>

-----------------------------------------------------------------------------
(* Module level, lines 6-10, and main up to the loop, lines 105-117.       *)

\* lines 6-8: the import of secrets succeeds or raises ImportError
ImportSecrets ==
    /\ pc = "import"
    /\ \E ok \in BOOLEAN : pc' = IF ok THEN "boot" ELSE "import_error"
    /\ UNCHANGED <<display, max_wait, current_state, last_poll, now,
                   new_state, touch_state, touch_hw, cw, attempts, wifi_up,
                   contact, iter, open_responses>>

\* lines 8-9 without line 10: the error is printed and swallowed
ImportFailedSwallowed ==
    /\ pc = "import_error"
    /\ pc' = "boot"
    /\ UNCHANGED <<display, max_wait, current_state, last_poll, now,
                   new_state, touch_state, touch_hw, cw, attempts, wifi_up,
                   contact, iter, open_responses>>

\* lines 8-10: the except clause prints the hint and raises again, which
\* ends the program before line 12
ImportFailed ==
    /\ pc = "import_error"
    /\ pc' = "aborted"
    /\ UNCHANGED <<display, max_wait, current_state, last_poll, now,
                   new_state, touch_state, touch_hw, cw, attempts, wifi_up,
                   contact, iter, open_responses>>

\* lines 107-108
Boot ==
    /\ pc = "boot"
    /\ display' = draw_ui(Str("init"), "Booting...")
    /\ pc' = "call_connect"
    /\ UNCHANGED <<max_wait, current_state, last_poll, now, new_state,
                   touch_state, touch_hw, cw, attempts, wifi_up, contact,
                   iter, open_responses>>

\* connect_wifi, lines 68-76: c is what wlan.isconnected() answers at line 70
CallConnect ==
    /\ pc = "call_connect"
    /\ attempts' = Min(attempts + 1, MaxAttempts)
    /\ \E c \in BOOLEAN :
         IF c
         THEN /\ cw' = [CwIdle EXCEPT !.result = "true"]
              /\ wifi_up' = TRUE
              /\ pc' = "connect_returned"
              /\ UNCHANGED <<display, max_wait>>
         ELSE /\ display' = draw_ui(Str("init"), "Connecting WiFi...")
              /\ max_wait' = MAX_WAIT
              /\ cw' = [CwIdle EXCEPT !.result = "running", !.draws = 1,
                                      !.assocs = 1]
              /\ pc' = "wait_connect"
              /\ UNCHANGED wifi_up
    /\ UNCHANGED <<current_state, last_poll, now, new_state, touch_state,
                   touch_hw, contact, iter, open_responses>>

\* line 82 left out
DecrementForgotten(n) == n

\* line 82
Decrement(n) == n - 1

\* connect_wifi, one turn of the loop at lines 77-82
WaitConnect ==
    /\ pc = "wait_connect"
    /\ max_wait > 0
    /\ \E c \in BOOLEAN :
         IF c
         THEN /\ cw' = [cw EXCEPT !.result = "true", !.checks = @ + 1]
              /\ wifi_up' = TRUE
              /\ pc' = "connect_returned"
              /\ UNCHANGED max_wait
         ELSE /\ cw' = [cw EXCEPT !.checks = @ + 1, !.sleeps = @ + 1]
              /\ max_wait' = Decrement(max_wait)
              /\ pc' = "wait_connect"
              /\ UNCHANGED wifi_up
    /\ UNCHANGED <<display, current_state, last_poll, now, new_state,
                   touch_state, touch_hw, attempts, contact, iter,
                   open_responses>>

\* connect_wifi, lines 77 and 84-85: the countdown is over
ConnectTimeout ==
    /\ pc = "wait_connect"
    /\ ~(max_wait > 0)
    /\ cw' = [cw EXCEPT !.result = "false"]
    /\ pc' = "connect_returned"
    /\ UNCHANGED <<display, max_wait, current_state, last_poll, now,
                   new_state, touch_state, touch_hw, attempts, wifi_up,
                   contact, iter, open_responses>>

\* line 111 as "connect_wifi()" called once, its value ignored
RetryConnectNever(result) == FALSE

\* line 111: the test of "while not connect_wifi()" on the value returned
RetryConnect(result) == result # "true"

\* lines 111-113: connect_wifi returned False; its locals are gone
WifiFailed ==
    /\ pc = "connect_returned"
    /\ RetryConnect(cw.result)
    /\ display' = draw_ui(Str("offline"), "WiFi Failed. Retrying...")
    /\ cw' = CwIdle
    /\ max_wait' = 0
    /\ pc' = "call_connect"
    /\ UNCHANGED <<current_state, last_poll, now, new_state,
                   touch_state, touch_hw, attempts, wifi_up, contact, iter,
                   open_responses>>

\* lines 111 and 116-117: connect_wifi returned True; its locals are gone
EnterLoop ==
    /\ pc = "connect_returned"
    /\ ~RetryConnect(cw.result)
    /\ current_state' = Str("offline")
    /\ last_poll' = 0
    /\ cw' = CwIdle
    /\ max_wait' = 0
    /\ iter' = IterStart
    /\ pc' = "touch_poll"
    /\ UNCHANGED <<display, now, new_state, touch_state, touch_hw, attempts,
                   wifi_up, contact, open_responses>>

-----------------------------------------------------------------------------
(* The loop, lines 119-152.                                                *)

\* lines 121-123: sample the panel; a contact that was never seen lifted
\* since the loop last detected it is that same contact
TouchPoll ==
    /\ pc = "touch_poll"
    /\ touch_state' = touch_hw
    /\ IF touch_hw
       THEN /\ pc' = "touch_draw"
            /\ contact' = IF contact.live THEN contact
                          ELSE [live |-> TRUE, sends |-> 0]
            /\ iter' = [iter EXCEPT !.touched = TRUE]
       ELSE /\ pc' = "status_tick"
            /\ UNCHANGED <<contact, iter>>
    /\ UNCHANGED <<display, max_wait, current_state, last_poll, now,
                   new_state, touch_hw, cw, attempts, wifi_up,
                   open_responses>>

\* line 127 preceded by an optimistic update of current_state
TouchDrawOptimistic ==
    /\ pc = "touch_draw"
    /\ current_state' = IF current_state \in {Str("listening"),
                                             Str("started")}
                        THEN Str("idle") ELSE Str("started")
    /\ display' = draw_ui(current_state', "Sending command...")
    /\ pc' = "touch_send"
    /\ UNCHANGED <<max_wait, last_poll, now, new_state, touch_state,
                   touch_hw, cw, attempts, wifi_up, contact, iter,
                   open_responses>>

\* line 127
TouchDraw ==
    /\ pc = "touch_draw"
    /\ display' = draw_ui(current_state, "Sending command...")
    /\ pc' = "touch_send"
    /\ UNCHANGED <<max_wait, current_state, last_poll, now, new_state,
                   touch_state, touch_hw, cw, attempts, wifi_up, contact,
                   iter, open_responses>>

\* line 130
TouchSend ==
    /\ pc = "touch_send"
    /\ \E o \in PostOutcomes :
         LET r == send_toggle(current_state, o)
         IN  /\ iter' = [iter EXCEPT !.posts = @ + r.posts,
                                     !.endpoint = r.endpoint,
                                     !.posted = o,
                                     !.arg = current_state]
             /\ contact' = [contact EXCEPT !.sends = @ + 1]
             /\ open_responses' = Min(open_responses + r.open, MaxOpen)
             /\ pc' = IF r.raised THEN "crashed" ELSE "debounce"
    /\ UNCHANGED <<display, max_wait, current_state, last_poll, now,
                   new_state, touch_state, touch_hw, cw, attempts, wifi_up>>

\* lines 133-135 without the wait: the branch goes on at once
DebounceSkipped ==
    /\ pc = "debounce"
    /\ pc' = "force_refresh"
    /\ UNCHANGED <<display, max_wait, current_state, last_poll, now,
                   new_state, touch_state, touch_hw, cw, attempts, wifi_up,
                   contact, iter, open_responses>>

\* lines 133-135: one test of the while condition and, if it holds, one
\* poll and one 100 ms sleep
Debounce ==
    /\ pc = "debounce"
    /\ IF touch_state
       THEN /\ touch_state' = touch_hw
            /\ iter' = [iter EXCEPT
                          !.polls = IF touch_hw THEN Min(@ + 1, MaxPolls)
                                    ELSE @]
            /\ pc' = "debounce"
       ELSE /\ pc' = "force_refresh"
            /\ UNCHANGED <<touch_state, iter>>
    /\ UNCHANGED <<display, max_wait, current_state, last_poll, now,
                   new_state, touch_hw, cw, attempts, wifi_up, contact,
                   open_responses>>

\* line 138 followed by "continue": the iteration ends with the touch
ForceRefreshContinue ==
    /\ pc = "force_refresh"
    /\ last_poll' = 0
    /\ pc' = "touch_poll"
    /\ UNCHANGED <<display, max_wait, current_state, now, new_state,
                   touch_state, touch_hw, cw, attempts, wifi_up, contact,
                   iter, open_responses>>

\* line 138
ForceRefresh ==
    /\ pc = "force_refresh"
    /\ last_poll' = 0
    /\ pc' = "status_tick"
    /\ UNCHANGED <<display, max_wait, current_state, now, new_state,
                   touch_state, touch_hw, cw, attempts, wifi_up, contact,
                   iter, open_responses>>

\* line 142 with a plain subtraction in place of time.ticks_diff
PollDuePlain(t, last) == t - last > POLL_INTERVAL

\* line 142
PollDue(t, last) == ticks_diff(t, last) > POLL_INTERVAL

\* lines 141-142: t is what time.ticks_ms() answers
StatusTick ==
    /\ pc = "status_tick"
    /\ \E t \in TickValues :
         /\ now' = t
         /\ IF PollDue(t, last_poll)
            THEN /\ pc' = "fetch"
                 /\ iter' = [iter EXCEPT !.checked = TRUE]
            ELSE /\ pc' = "sleep"
                 /\ UNCHANGED iter
    /\ UNCHANGED <<display, max_wait, current_state, last_poll, new_state,
                   touch_state, touch_hw, cw, attempts, wifi_up, contact,
                   open_responses>>

\* line 143
Fetch ==
    /\ pc = "fetch"
    /\ \E o \in GetOutcomes :
         LET r == get_server_status(o)
         IN  /\ iter' = [iter EXCEPT !.gets = @ + 1, !.got = o]
             /\ open_responses' = Min(open_responses + r.open, MaxOpen)
             /\ IF r.raised
                THEN pc' = "crashed" /\ UNCHANGED new_state
                ELSE pc' = "compare" /\ new_state' = r.value
    /\ UNCHANGED <<display, max_wait, current_state, last_poll, now,
                   touch_state, touch_hw, cw, attempts, wifi_up, contact>>

\* line 145 with the test left out: every status check redraws
StateChangedAlways(new, current) == TRUE

\* line 145
StateChanged(new, current) == new # current

\* lines 145-148
Compare ==
    /\ pc = "compare"
    /\ IF StateChanged(new_state, current_state)
       THEN /\ current_state' = new_state
            /\ display' = draw_ui(new_state, StateMessage(new_state))
            /\ iter' = [iter EXCEPT !.before = current_state,
                                    !.draws = @ + 1, !.gcs = @ + 1]
       ELSE /\ iter' = [iter EXCEPT !.before = current_state]
            /\ UNCHANGED <<current_state, display>>
    /\ pc' = "set_last_poll"
    /\ UNCHANGED <<max_wait, last_poll, now, new_state, touch_state,
                   touch_hw, cw, attempts, wifi_up, contact, open_responses>>

\* line 150
SetLastPoll ==
    /\ pc = "set_last_poll"
    /\ last_poll' = now
    /\ pc' = "sleep"
    /\ UNCHANGED <<display, max_wait, current_state, now, new_state,
                   touch_state, touch_hw, cw, attempts, wifi_up, contact,
                   iter, open_responses>>

\* line 152 followed by a reconnect when the state is "offline"
SleepReconnect ==
    /\ pc = "sleep"
    /\ iter' = IterStart
    /\ now' = 0
    /\ new_state' = Unset
    /\ pc' = IF current_state = Str("offline") THEN "call_connect"
             ELSE "touch_poll"
    /\ UNCHANGED <<display, max_wait, current_state, last_poll, touch_state,
                   touch_hw, cw, attempts, wifi_up, contact, open_responses>>

\* line 152 and back to line 119; now and new_state are not read again
\* before lines 141 and 143 assign them, so the model forgets them here
Sleep ==
    /\ pc = "sleep"
    /\ iter' = IterStart
    /\ now' = 0
    /\ new_state' = Unset
    /\ pc' = "touch_poll"
    /\ UNCHANGED <<display, max_wait, current_state, last_poll, touch_state,
                   touch_hw, cw, attempts, wifi_up, contact, open_responses>>

-----------------------------------------------------------------------------

Program ==
    \/ ImportSecrets \/ ImportFailed \/ Boot \/ CallConnect \/ WaitConnect \/ ConnectTimeout
    \/ WifiFailed \/ EnterLoop \/ TouchPoll \/ TouchDraw \/ TouchSend
    \/ Debounce \/ ForceRefresh \/ StatusTick \/ Fetch \/ Compare
    \/ SetLastPoll \/ Sleep

Next == Program \/ Press \/ Release

Spec == Init /\ [][Next]_vars

\* the interpreter keeps running the thread
FairSpec == Spec /\ WF_vars(Program)

-----------------------------------------------------------------------------
(* draw_ui on its own: it is called with every state value and message,    *)
(* current_state holding the argument and display the frame it presents.   *)

\* state arguments: the values main can pass and near misses of the names
DrawStates == SessionValues \cup {Str("LISTENING"), Str("")}

\* message arguments: none (line 61 skips it) and the messages main passes
DrawMessages ==
    {"", "Booting...", "Sending command...", "State: started"}

DrawInit ==
    /\ pc = "draw_pick"
    /\ display = Blank
    /\ max_wait = 0
    /\ current_state = Unset
    /\ last_poll = 0
    /\ now = 0
    /\ new_state = Unset
    /\ touch_state = FALSE
    /\ touch_hw = FALSE
    /\ cw = CwIdle
    /\ attempts = 0
    /\ wifi_up = FALSE
    /\ contact = [live |-> FALSE, sends |-> 0]
    /\ iter = IterStart
    /\ open_responses = 0

\* the caller chooses the state argument
DrawPick ==
    /\ pc = "draw_pick"
    /\ \E s \in DrawStates : current_state' = s
    /\ pc' = "draw_call"
    /\ UNCHANGED <<display, max_wait, last_poll, now, new_state,
                   touch_state, touch_hw, cw, attempts, wifi_up, contact,
                   iter, open_responses>>

\* lines 32-65
DrawCall ==
    /\ pc = "draw_call"
    /\ \E m \in DrawMessages : display' = draw_ui(current_state, m)
    /\ pc' = "draw_pick"
    /\ UNCHANGED <<max_wait, current_state, last_poll, now, new_state,
                   touch_state, touch_hw, cw, attempts, wifi_up, contact,
                   iter, open_responses>>

DrawNext == DrawPick \/ DrawCall

DrawSpec == DrawInit /\ [][DrawNext]_vars

\* lines 141-142 in an iteration without a touch, sampling a tick at which
\* the poll is due
UntouchedDueTick == StatusTick /\ ~iter.touched /\ pc' = "fetch"

\* the interpreter keeps running the thread, and the tick counter keeps
\* advancing: a loop that goes on sampling it in iterations without a touch
\* samples it at some time where the poll is due
TimeFairSpec == Spec /\ WF_vars(Program) /\ SF_vars(UntouchedDueTick)

TypeOK ==
    /\ pc \in LoopPcs \cup {"import", "import_error", "aborted", "boot",
                            "call_connect",
                            "wait_connect", "connect_returned", "crashed"}
    /\ max_wait \in 0..MAX_WAIT
    /\ last_poll \in TickValues \cup {0}
    /\ now \in TickValues \cup {0}
    /\ touch_state \in BOOLEAN /\ touch_hw \in BOOLEAN
    /\ attempts \in 0..MaxAttempts
    /\ open_responses \in 0..MaxOpen

-----------------------------------------------------------------------------
(* Properties.                                                             *)

StatusCheckDone == pc = "sleep" /\ iter.checked

\* C1: every touch contact the loop detects gets exactly one send_toggle
\* call: never more than one, however many debounce polls see it pressed,
\* and exactly one from the moment the command step has run until the loop
\* detects the next contact.
C1_Debounce ==
    /\ contact.sends <= 1
    /\ (iter.touched /\ pc \notin {"touch_draw", "touch_send"})
          => contact.sends = 1

\* a contact held over several debounce polls, with its one command sent
C1_Witness ==
    /\ pc = "debounce"
    /\ iter.polls >= 2
    /\ touch_hw /\ contact.live
    /\ contact.sends = 1

\* C2: an iteration that handled a touch (command sent, touch released)
\* always performs its status check, whatever the tick counter reads.
C2_ForcedRefresh ==
    (pc = "sleep" /\ iter.touched) => iter.checked

\* C3: a status check whose fetch returns current_state draws nothing,
\* collects nothing and leaves current_state; a fetch that returns another
\* value makes it current_state and draws and collects exactly once.
C3_RedrawOnChange ==
    (pc \in {"set_last_poll", "sleep"} /\ iter.checked) =>
        IF new_state = iter.before
        THEN iter.draws = 0 /\ iter.gcs = 0 /\ current_state = iter.before
        ELSE iter.draws = 1 /\ iter.gcs = 1 /\ current_state = new_state

\* a status check that fetched "started" again and did not redraw
C3_Witness ==
    /\ StatusCheckDone
    /\ new_state = Str("started")
    /\ iter.before = Str("started")
    /\ iter.draws = 0

\* C4: when a status check completes the screen shows the visual of the
\* fetched state: green ACTIVE for "started", red OFFLINE for "offline".
C4_DisplayShowsFetched ==
    StatusCheckDone =>
        /\ (new_state = Str("started")
              => display.color = "GREEN" /\ display.label = "ACTIVE")
        /\ (new_state = Str("offline")
              => display.color = "RED" /\ display.label = "OFFLINE")

\* the GET of the running status check met one of the cases C5 lists
C5_ListedCase ==
    \/ iter.got.kind \in {"refused", "timeout", "notjson", "nofield"}
    \/ (iter.got.kind = "field" /\ iter.got.val.type # "str")

C6_ResponsesClosed == open_responses = 0

\* C7: send_toggle posts to /stop for "listening" and "started" and to
\* /start for everything else, and main passes it the current_state it
\* holds before the command.
C7_Endpoint ==
    iter.posts > 0 =>
        /\ (iter.arg = Str("listening") \/ iter.arg = Str("started"))
              => iter.endpoint = "/stop"
        /\ (iter.arg # Str("listening") /\ iter.arg # Str("started"))
              => iter.endpoint = "/start"
        /\ pc \in {"debounce", "force_refresh", "status_tick", "fetch",
                   "compare"} => iter.arg = current_state

\* a touch while current_state is "offline" posted to /start
C7_Witness ==
    /\ pc = "debounce"
    /\ current_state = Str("offline")
    /\ iter.posts = 1
    /\ iter.endpoint = "/start"

\* C8: when connect_wifi has returned False, main's next step draws the
\* "offline" screen with "WiFi Failed. Retrying..." and goes back to calling
\* connect_wifi; the loop is entered only on a True return, and no request
\* is issued before a connect_wifi call has returned True.
C8_WifiRetry ==
    [][ /\ (pc = "connect_returned" /\ cw.result = "false" /\ pc' # pc)
              => /\ pc' = "call_connect"
                 /\ display' = [color |-> "RED", label |-> "OFFLINE",
                                message |-> "WiFi Failed. Retrying..."]
        /\ (pc \notin LoopPcs /\ pc' \in LoopPcs) => cw.result = "true"
        /\ (pc' \in LoopPcs \/ iter'.gets + iter'.posts > 0) => wifi_up'
      ]_vars

\* the second connect_wifi call has failed too and main has drawn the
\* failure screen again
C8_Witness ==
    /\ pc = "call_connect"
    /\ attempts >= 2
    /\ ~wifi_up
    /\ display.message = "WiFi Failed. Retrying..."

\* what a connect_wifi call has done at each of its positions
C9_Steps ==
    /\ cw.checks <= 15
    /\ pc = "wait_connect" =>
         /\ cw.draws = 1 /\ cw.assocs = 1
         /\ cw.sleeps = cw.checks
         /\ max_wait + cw.checks = 15
    /\ pc = "connect_returned" =>
         \/ /\ cw.result = "true"      \* already associated
            /\ cw.draws = 0 /\ cw.assocs = 0 /\ cw.checks = 0
            /\ cw.sleeps = 0
         \/ /\ cw.result = "true"      \* a check saw connectivity
            /\ cw.draws = 1 /\ cw.assocs = 1
            /\ cw.checks \in 1..15
            /\ cw.sleeps = cw.checks - 1
         \/ /\ cw.result = "false"     \* all checks failed
            /\ cw.draws = 1 /\ cw.assocs = 1
            /\ cw.checks = 15 /\ cw.sleeps = 15

\* C9: connect_wifi terminates; already associated, it returns True with
\* no association and no drawing; otherwise it draws once, associates once
\* and checks at most 15 times, sleeping after each failed check, returning
\* True at the first good check and False after 15 failed ones.
C9_ConnectTerminates ==
    /\ []C9_Steps
    /\ (pc = "wait_connect") ~> (pc = "connect_returned")

\* a call that returned False after 15 failed checks
C9_Witness ==
    /\ pc = "connect_returned"
    /\ cw.result = "false"
    /\ cw.checks = 15

\* C10: once in the loop the program stays in the loop, whatever the GETs
\* and POSTs meet and whatever the panel reports.
C10_FailSoft == [][(pc \in LoopPcs) => (pc' \in LoopPcs)]_vars

\* an iteration whose POST was refused and whose GET got a non-JSON body
C10_Witness ==
    /\ pc = "sleep"
    /\ iter.posted = "refused"
    /\ iter.got.kind = "notjson"

\* the four (color, label) pairs of draw_ui
C11_Pairs ==
    { <<"GREEN", "ACTIVE">>, <<"RED", "OFFLINE">>, <<"BLUE", "STARTING">>,
      <<"GRAY", "IDLE">> }

\* C11: the frame draw_ui presents shows exactly one of the four pairs, and
\* which one is fixed by the state argument: green ACTIVE for "listening"
\* and "started", red OFFLINE for "offline", blue STARTING for "init", gray
\* IDLE for every other argument.
C11_DrawMapping ==
    (pc = "draw_pick" /\ display # Blank) =>
        /\ <<display.color, display.label>> \in C11_Pairs
        /\ <<display.color, display.label>> =
             CASE current_state.type = "str"
                    /\ current_state.text \in {"listening", "started"}
                    -> <<"GREEN", "ACTIVE">>
               [] current_state.type = "str"
                    /\ current_state.text = "offline"
                    -> <<"RED", "OFFLINE">>
               [] current_state.type = "str" /\ current_state.text = "init"
                    -> <<"BLUE", "STARTING">>
               [] OTHER -> <<"GRAY", "IDLE">>

\* a number, which no branch names, drawn as gray IDLE
C11_Witness ==
    /\ pc = "draw_pick"
    /\ current_state = Num("42")
    /\ display.color = "GRAY" /\ display.label = "IDLE"

\* C12: when the secrets cannot be imported the program ends there: from
\* the failed import on nothing is drawn, no connect_wifi call is made, no
\* request is issued and the loop is never entered.
C12_SecretsFatal ==
    [][ (pc \in {"import_error", "aborted"}) =>
          /\ pc' \in {"import_error", "aborted"}
          /\ display' = Blank
          /\ attempts' = 0 /\ cw' = CwIdle /\ ~wifi_up'
          /\ iter' = IterStart
          /\ current_state' = Unset
      ]_vars

\* the program has ended on the failed import with nothing done
C12_Witness ==
    /\ pc = "aborted"
    /\ display = Blank
    /\ attempts = 0
    /\ iter.gets = 0 /\ iter.posts = 0

\* C13: in an iteration without a touch that follows a status check (no
\* sampled tick is 0, so last_poll is then the tick of that check), the
\* fetch is made exactly when the time from that tick to the tick sampled
\* now, counted around the wrap of the 2^30 ms counter and read as a signed
\* half-period value, is more than 3000 ms; and when a status check is
\* over last_poll is the tick sampled before its fetch.
C13_PollInterval ==
    LET d == (now - last_poll) % 1073741824
        elapsed == IF d >= 536870912 THEN d - 1073741824 ELSE d
        decided == \/ pc \in {"fetch", "compare", "set_last_poll"}
                   \/ (pc = "sleep" /\ ~iter.checked)
    IN  /\ (decided /\ ~iter.touched /\ last_poll \in TickValues)
              => (iter.checked <=> elapsed > 3000)
        /\ StatusCheckDone => last_poll = now

\* the counter wrapped between two status checks and the poll was due
C13_Witness ==
    /\ pc = "fetch"
    /\ ~iter.touched
    /\ last_poll = TICKS_PERIOD - 1
    /\ now = POLL_INTERVAL
    /\ iter.checked

\* C14: in the loop current_state changes only in the step of lines
\* 145-148, and then to the value just fetched; on the way through the
\* touch branch it keeps the value the iteration started with, and that
\* value is what send_toggle was given.
C14_StateFrame ==
    [][ /\ (pc \in LoopPcs /\ current_state' # current_state)
              => (pc = "compare" /\ current_state' = new_state)
        /\ (pc \in {"touch_poll", "touch_draw", "touch_send", "debounce",
                    "force_refresh"})
              => current_state' = current_state
        /\ (iter'.posts > iter.posts) => iter'.arg = current_state
      ]_vars

\* a touch on "started" whose POST timed out: current_state is still
\* "started" when the branch ends
C14_Witness ==
    /\ pc = "force_refresh"
    /\ iter.posted = "timeout"
    /\ iter.arg = Str("started")
    /\ current_state = Str("started")

\* the steps of one iteration in the order of the text
C15_Successors ==
    { <<"touch_poll", "touch_draw">>, <<"touch_poll", "status_tick">>,
      <<"touch_draw", "touch_send">>, <<"touch_send", "debounce">>,
      <<"debounce", "force_refresh">>, <<"force_refresh", "status_tick">>,
      <<"status_tick", "fetch">>, <<"status_tick", "sleep">>,
      <<"fetch", "compare">>, <<"compare", "set_last_poll">>,
      <<"set_last_poll", "sleep">>, <<"sleep", "touch_poll">> }

\* C15: an iteration goes touch sample, then, if touched, the "Sending
\* command..." redraw, the POST and the wait for release, then the status
\* check, then the sleep; the POST is issued with the redraw on screen and
\* before any GET of the iteration.
C15_IterationOrder ==
    [][ /\ (pc \in LoopPcs /\ pc' # pc) => <<pc, pc'>> \in C15_Successors
        /\ (pc = "touch_poll" /\ pc' # pc)
              => (pc' = "touch_draw" <=> touch_state')
        /\ (iter'.posts > iter.posts)
              => /\ display.message = "Sending command..."
                 /\ iter.gets = 0
        /\ (iter'.gets > iter.gets /\ iter.touched)
              => (iter.posts = 1 /\ ~touch_state)
      ]_vars

\* an iteration that sent a command and then fetched the status
C15_Witness ==
    /\ pc = "compare"
    /\ iter.posts = 1
    /\ iter.gets = 1

\* C16: while the loop waits for a detected touch to be released it fetches
\* nothing and draws nothing, a fetch is made only with the touch seen
\* released, and once the loop has seen the release a status fetch
\* eventually follows.
C16_HoldPausesStatus ==
    /\ [][ /\ (pc = "debounce")
                 => /\ display' = display
                    /\ iter'.gets = iter.gets
                    /\ pc' \in {"debounce", "force_refresh"}
           /\ (iter'.gets > iter.gets) => ~touch_state
         ]_vars
    /\ (pc = "force_refresh") ~> (pc = "fetch")

\* C17: an iteration issues one POST if it took the touch branch and none
\* otherwise, one GET if it took the status check and none otherwise,
\* whether the requests succeed or fail.
C17_NoRetry ==
    /\ iter.posts <= 1 /\ iter.gets <= 1
    /\ ~iter.touched => iter.posts = 0
    /\ (iter.touched /\ pc \notin {"touch_draw", "touch_send"})
          => iter.posts = 1
    /\ ~iter.checked => iter.gets = 0
    /\ (iter.checked /\ pc # "fetch") => iter.gets = 1

\* an iteration whose POST timed out and whose GET was refused: one of each
C17_Witness ==
    /\ pc = "sleep"
    /\ iter.posted = "timeout" /\ iter.posts = 1
    /\ iter.got.kind = "refused" /\ iter.gets = 1

\* C18: in the loop no connect_wifi call is made, whatever the requests
\* meet: a GET that cannot reach the server only yields "offline".
C18_NoReconnect ==
    [][ (pc \in LoopPcs) =>
          /\ pc' \notin {"call_connect", "wait_connect", "connect_returned"}
          /\ attempts' = attempts
          /\ cw' = cw
          /\ (iter'.gets > iter.gets
                /\ iter'.got.kind \in {"refused", "timeout"})
                => new_state' = Str("offline")
      ]_vars

\* the server was reachable ("started") and the next GET timed out
C18_Witness ==
    /\ pc = "compare"
    /\ current_state = Str("started")
    /\ iter.got.kind = "timeout"
    /\ new_state = Str("offline")

=============================================================================
